---- MODULE Spec2Model ----
(***************************************************************************)
(* Model of keadm/cmd/keadm/app/cmd/helm/values.go: Options.MergeValues,   *)
(* mergeMaps and readFile.                                                 *)
(*                                                                         *)
(* Go maps are reference objects, so documents live in a heap: a sequence  *)
(* of map objects addressed by their index.  A map object is a function    *)
(* from keys to values; a value is a scalar, a list, or a reference to     *)
(* another map object.  Strings (keys, paths, expressions, file texts) are *)
(* sequences of one-character strings, so that trimming, splitting and     *)
(* parsing are computed character by character.                            *)
(***************************************************************************)
EXTENDS Integers, Sequences, FiniteSets, TLC

VARIABLES
    heap,      \* the map objects allocated so far
    argA,      \* mergeMaps driver: the argument a (0 in MergeValues runs)
    argB,      \* mergeMaps driver: the argument b
    out,       \* mergeMaps driver: the returned map (0 before the first call)
    heapPre,   \* mergeMaps driver: the heap as it was when the last call began
    calls,     \* mergeMaps driver: number of calls made
    opts,      \* MergeValues: the Options bundle
    stdin,     \* MergeValues: the text still unread on standard input
    base,      \* MergeValues: the local variable base (a heap address)
    pc,        \* MergeValues: the loop the call is in
    idx,       \* MergeValues: elements of the current loop already processed
    err,       \* MergeValues: the error returned (NoErr while running)
    result,    \* MergeValues: the map returned (0 is nil)
    reads,     \* MergeValues: every readFile call, with the source it read from
    trace      \* MergeValues: the items processed so far, in order

vars == <<heap, argA, argB, out, heapPre, calls,
          opts, stdin, base, pc, idx, err, result, reads, trace>>

mergeVars == <<argA, argB, out, heapPre, calls>>
valuesVars == <<opts, stdin, base, pc, idx, err, result, reads, trace>>

(***************************************************************************)
(* Values.                                                                 *)
(***************************************************************************)
Num(n) == [t |-> "num", n |-> n, s |-> <<>>, m |-> <<>>]
Str(s) == [t |-> "str", n |-> 0, s |-> s, m |-> <<>>]
Bool(b) == [t |-> "bool", n |-> IF b THEN 1 ELSE 0, s |-> <<>>, m |-> <<>>]
Null == [t |-> "null", n |-> 0, s |-> <<>>, m |-> <<>>]
\* a list of one-character items
List(s) == [t |-> "list", n |-> 0, s |-> s, m |-> <<>>]
\* a nested document held by value (file contents, expected results)
Map(m) == [t |-> "map", n |-> 0, s |-> <<>>, m |-> m]
\* a nested document held in the heap: map[string]interface{} at address r
Ref(r) == [t |-> "ref", n |-> r, s |-> <<>>, m |-> <<>>]

EmptyDoc == <<>>

NoErr == [kind |-> "nil", names |-> {}]
\* an error of kind k whose message embeds the strings in names
Error(k, names) == [kind |-> k, names |-> names]

\* data[key] = val
MapSet(m, k, v) == (k :> v) @@ m

\* a one-character key
Nm(c) == <<c>>

(***************************************************************************)
(* Allocation of a document in the heap, and the document a heap address   *)
(* denotes.                                                                *)
(***************************************************************************)
RECURSIVE Alloc(_, _), AllocKeys(_, _, _, _)
AllocKeys(h, self, doc, ks) ==
    IF ks = {} THEN [h |-> h, r |-> self]
    ELSE LET k == CHOOSE x \in ks : TRUE
             v == doc[k]
         IN IF v.t = "map"
            THEN LET sub == Alloc(h, v.m)
                 IN AllocKeys([sub.h EXCEPT ![self] = MapSet(@, k, Ref(sub.r))],
                              self, doc, ks \ {k})
            ELSE AllocKeys([h EXCEPT ![self] = MapSet(@, k, v)],
                           self, doc, ks \ {k})

Alloc(h, doc) == AllocKeys(Append(h, EmptyDoc), Len(h) + 1, doc, DOMAIN doc)

RECURSIVE Deref(_, _)
Deref(h, r) ==
    [k \in DOMAIN h[r] |->
        IF h[r][k].t = "ref" THEN Map(Deref(h, h[r][k].n)) ELSE h[r][k]]

(***************************************************************************)
(* mergeMaps (values.go:91-108).  Go ranges over a map in an unspecified   *)
(* order.  An iteration for key k reads b[k] and out[k] and writes out[k]  *)
(* only, and the keys are distinct, so the iterations commute: the order   *)
(* decides nothing but which addresses the nested results get.             *)
(***************************************************************************)
\* faulty variant: out aliases a instead of being a fresh copy
newOutInPlace(h, a) == [h |-> h, r |-> a]

\* faulty variant: out is allocated but a's entries are not copied
newOutNoCopy(h, a) == [h |-> Append(h, EmptyDoc), r |-> Len(h) + 1]

\* out := make(map, len(a)); for k, v := range a { out[k] = v }
newOut(h, a) == [h |-> Append(h, h[a]), r |-> Len(h) + 1]

\* faulty variant: never recurse, so a nested document of b replaces a's wholesale
bothMapsNever(h, o, k, v) == FALSE

\* v is a map, out has k, and out[k] is a map
bothMaps(h, o, k, v) ==
    /\ v.t = "ref"
    /\ k \in DOMAIN h[o]
    /\ h[o][k].t = "ref"

\* faulty variant: two lists under the same key are concatenated
assignAppendLists(h, o, k, v) ==
    IF v.t = "list" /\ k \in DOMAIN h[o] /\ h[o][k].t = "list"
    THEN [h EXCEPT ![o] = MapSet(@, k, List(h[o][k].s \o v.s))]
    ELSE [h EXCEPT ![o] = MapSet(@, k, v)]

\* out[k] = v
assign(h, o, k, v) == [h EXCEPT ![o] = MapSet(@, k, v)]

RECURSIVE mergeMaps(_, _, _), mergeRange(_, _, _, _)
\* for k, v := range b { ... }, ks being the keys still to visit
mergeRange(h, o, b, ks) ==
    IF ks = {} THEN [h |-> h, r |-> o]
    ELSE LET k == CHOOSE x \in ks : TRUE
             v == h[b][k]
         IN IF bothMaps(h, o, k, v)
            THEN LET sub == mergeMaps(h, h[o][k].n, v.n)
                 IN mergeRange(assign(sub.h, o, k, Ref(sub.r)), o, b, ks \ {k})
            ELSE mergeRange(assign(h, o, k, v), o, b, ks \ {k})

mergeMaps(h, a, b) ==
    LET o == newOut(h, a)
    IN mergeRange(o.h, o.r, b, DOMAIN o.h[b])

(***************************************************************************)
(* The documents mergeMaps is applied to.  Key a may hold a scalar, a list *)
(* or a nested document; key b a scalar.                                   *)
(***************************************************************************)
\* documents nest at most MaxDepth deep; mergeMaps is called at most
\* MaxCalls times in a row
MaxDepth == 3
MaxCalls == 2

RECURSIVE Docs(_, _)
Docs(d, n) ==
    IF d = 0 THEN {EmptyDoc}
    ELSE LET va == {Num(n), List(<<"x">>), List(<<"y", "z">>)}
                     \cup {Map(x) : x \in Docs(d - 1, n)}
             vb == {Num(n)}
         IN {EmptyDoc}
            \cup {(Nm("a") :> x) : x \in va}
            \cup {(Nm("b") :> y) : y \in vb}
            \cup {(Nm("a") :> x) @@ (Nm("b") :> y) : x \in va, y \in vb}

DocsA == Docs(MaxDepth, 1)
DocsB == Docs(MaxDepth, 2) \cup DocsA

IdleValues ==
    /\ opts = <<>>
    /\ stdin = <<>>
    /\ base = 0
    /\ pc = "idle"
    /\ idx = 0
    /\ err = NoErr
    /\ result = 0
    /\ reads = <<>>
    /\ trace = <<>>

InitMerge ==
    /\ \E A \in DocsA, B \in DocsB, alias \in BOOLEAN :
          LET ha == Alloc(<<>>, A)
              hb == Alloc(ha.h, B)
          IN /\ argA = ha.r
             /\ IF alias
                THEN B = EmptyDoc /\ heap = ha.h /\ argB = ha.r
                ELSE heap = hb.h /\ argB = hb.r
    /\ out = 0
    /\ heapPre = <<>>
    /\ calls = 0
    /\ IdleValues

\* out = mergeMaps(a, b)
CallMerge ==
    /\ calls = 0
    /\ LET r == mergeMaps(heap, argA, argB)
       IN heap' = r.h /\ out' = r.r
    /\ heapPre' = heap
    /\ calls' = 1
    /\ UNCHANGED <<argA, argB>>
    /\ UNCHANGED valuesVars

\* the same b merged onto the previous result, as when one values-file is
\* named twice in a row: base = mergeMaps(base, currentMap)
CallMergeAgain ==
    /\ calls > 0
    /\ calls < MaxCalls
    /\ LET r == mergeMaps(heap, out, argB)
       IN heap' = r.h /\ out' = r.r
    /\ heapPre' = heap
    /\ argA' = out
    /\ calls' = calls + 1
    /\ UNCHANGED argB
    /\ UNCHANGED valuesVars

NextMerge == CallMerge \/ CallMergeAgain

MergeSpec == InitMerge /\ [][NextMerge]_vars

(***************************************************************************)
(* Strings, the files on disk and standard input.                          *)
(***************************************************************************)
IsSpace(c) == c \in {" ", "\t", "\n", "\r"}

RECURSIVE TrimLeft(_)
TrimLeft(s) ==
    IF s # <<>> /\ IsSpace(Head(s)) THEN TrimLeft(Tail(s)) ELSE s

RECURSIVE TrimRight(_)
TrimRight(s) ==
    IF s # <<>> /\ IsSpace(s[Len(s)])
    THEN TrimRight(SubSeq(s, 1, Len(s) - 1))
    ELSE s

\* strings.TrimSpace
TrimSpace(s) == TrimRight(TrimLeft(s))

PathDash == <<"-">>
PathDashSp == <<" ", "-", " ">>
PathF == <<"f">>
PathG == <<"g">>
PathH == <<"h">>
PathBad == <<"b", "a", "d">>
PathDenied == <<"d", "e", "n">>
PathMissing == <<"n", "o">>

TextF == <<"a", ":", " ", "1">>
TextG == <<"a", ":", " ", "2">>
TextH == <<"a", ":", " ", "1", "\n",
           "b", ":", " ", "{", "a", ":", " ", "1", ",", " ",
           "b", ":", " ", "1", "}">>
TextBad == <<"a", ":", " ", "[">>
TextStdin == <<"b", ":", " ", "{", "a", ":", " ", "2", "}">>

\* the local filesystem: the files that exist, with their text; a file
\* whose text is "denied" exists and cannot be read
Disk ==
    (PathF :> TextF) @@ (PathG :> TextG) @@ (PathH :> TextH)
    @@ (PathBad :> TextBad) @@ (PathDenied :> <<"denied">>)

\* faulty variant: the sentinel is recognised only when the path is exactly "-"
readFileNoTrim(filePath, in) ==
    IF filePath = PathDash
    THEN [data |-> in, err |-> NoErr, src |-> "stdin", stdin |-> <<>>]
    ELSE IF filePath \in DOMAIN Disk /\ Disk[filePath] # <<"denied">>
         THEN [data |-> Disk[filePath], err |-> NoErr, src |-> "fs",
               stdin |-> in]
         ELSE [data |-> <<>>, err |-> Error("ReadError", {filePath}),
               src |-> "fs", stdin |-> in]

\* readFile (values.go:111-116).  io.ReadAll(os.Stdin) returns what is left
\* on standard input and leaves it at end of stream (standard input is
\* taken to be open); os.ReadFile returns the file's text, or a *PathError
\* carrying the path it was given.
readFile(filePath, in) ==
    IF TrimSpace(filePath) = PathDash
    THEN [data |-> in, err |-> NoErr, src |-> "stdin", stdin |-> <<>>]
    ELSE IF filePath \in DOMAIN Disk /\ Disk[filePath] # <<"denied">>
         THEN [data |-> Disk[filePath], err |-> NoErr, src |-> "fs",
               stdin |-> in]
         ELSE [data |-> <<>>, err |-> Error("ReadError", {filePath}),
               src |-> "fs", stdin |-> in]

\* yaml.Unmarshal on the texts of this model: the document a text denotes,
\* or no document when the text is not well-formed.  An empty text leaves
\* the target map empty.
Unmarshal(text) ==
    CASE text = <<>> -> [ok |-> TRUE, doc |-> EmptyDoc]
      [] text = TextF -> [ok |-> TRUE, doc |-> (Nm("a") :> Num(1))]
      [] text = TextG -> [ok |-> TRUE, doc |-> (Nm("a") :> Num(2))]
      [] text = TextH ->
            [ok |-> TRUE,
             doc |-> (Nm("a") :> Num(1))
                     @@ (Nm("b") :> Map((Nm("a") :> Num(1))
                                         @@ (Nm("b") :> Num(1))))]
      [] text = TextStdin ->
            [ok |-> TRUE, doc |-> (Nm("b") :> Map((Nm("a") :> Num(2))))]
      [] OTHER -> [ok |-> FALSE, doc |-> EmptyDoc]

(***************************************************************************)
(* helm.sh/helm/v3/pkg/strvals, as far as the expressions of this model    *)
(* exercise it: dotted paths, comma-separated assignments, backslash       *)
(* escapes, scalar values.  List indices (a[0]=1), list values (a={1,2})   *)
(* and JSON objects, arrays, strings and fractions are outside it: no      *)
(* expression of the model holds [, ], {, } or a double quote.             *)
(* A parser state st holds the heap, standard input and the reads made,    *)
(* since the --set-file reader calls readFile while parsing.               *)
(***************************************************************************)
ENil == [code |-> "nil", names |-> {}]
EEOF == [code |-> "EOF", names |-> {}]
\* an error whose message embeds the strings in names
EErr(names) == [code |-> "err", names |-> names]

\* runesUntil: the runes before the first unescaped stop rune, that rune,
\* and what follows it; eof when the input ends first
RECURSIVE runesUntil(_, _)
runesUntil(s, stop) ==
    IF s = <<>>
    THEN [v |-> <<>>, last |-> "", rest |-> <<>>, eof |-> TRUE]
    ELSE IF Head(s) \in stop
    THEN [v |-> <<>>, last |-> Head(s), rest |-> Tail(s), eof |-> FALSE]
    ELSE IF Head(s) = "\\"
    THEN IF Tail(s) = <<>>
         THEN [v |-> <<>>, last |-> "", rest |-> <<>>, eof |-> TRUE]
         ELSE LET r == runesUntil(Tail(Tail(s)), stop)
              IN [r EXCEPT !.v = <<s[2]>> \o @]
    ELSE LET r == runesUntil(Tail(s), stop)
         IN [r EXCEPT !.v = <<Head(s)>> \o @]

\* runesUntilLiteral: the same without escapes
RECURSIVE runesUntilLiteral(_, _)
runesUntilLiteral(s, stop) ==
    IF s = <<>>
    THEN [v |-> <<>>, last |-> "", rest |-> <<>>, eof |-> TRUE]
    ELSE IF Head(s) \in stop
    THEN [v |-> <<>>, last |-> Head(s), rest |-> Tail(s), eof |-> FALSE]
    ELSE LET r == runesUntilLiteral(Tail(s), stop)
         IN [r EXCEPT !.v = <<Head(s)>> \o @]

\* set: data[key] = val unless the key is empty
set(st, data, k, v) ==
    IF k = <<>> THEN st ELSE [st EXCEPT !.h[data] = MapSet(@, k, v)]

IsDigit(c) == c \in {"0", "1", "2", "3", "4", "5", "6", "7", "8", "9"}

DigitOf(c) ==
    CASE c = "0" -> 0 [] c = "1" -> 1 [] c = "2" -> 2 [] c = "3" -> 3
      [] c = "4" -> 4 [] c = "5" -> 5 [] c = "6" -> 6 [] c = "7" -> 7
      [] c = "8" -> 8 [] c = "9" -> 9

RECURSIVE DigitsVal(_, _)
DigitsVal(s, acc) ==
    IF s = <<>> THEN acc ELSE DigitsVal(Tail(s), 10 * acc + DigitOf(Head(s)))

AllDigits(s) == s # <<>> /\ \A i \in 1..Len(s) : IsDigit(s[i])

\* strconv.ParseInt(val, 10, 64) on values short enough not to overflow
ParseInt(s) ==
    LET signed == s # <<>> /\ Head(s) \in {"+", "-"}
        body == IF signed THEN Tail(s) ELSE s
    IN IF AllDigits(body)
       THEN [ok |-> TRUE,
             n |-> IF signed /\ Head(s) = "-"
                   THEN 0 - DigitsVal(body, 0) ELSE DigitsVal(body, 0)]
       ELSE [ok |-> FALSE, n |-> 0]

\* typedVal(v, false), on lower-case input
typedVal(v) ==
    IF v = <<"t", "r", "u", "e">> THEN Bool(TRUE)
    ELSE IF v = <<"f", "a", "l", "s", "e">> THEN Bool(FALSE)
    ELSE IF v = <<"n", "u", "l", "l">> THEN Null
    ELSE IF v = <<"0">> THEN Num(0)
    ELSE IF v # <<>> /\ Head(v) # "0" /\ ParseInt(v).ok THEN Num(ParseInt(v).n)
    ELSE Str(v)

\* the reader of each parser: ParseInto infers the type, ParseIntoString
\* keeps the text, ParseIntoFile calls the reader MergeValues passes
\* (values.go:69-75), which returns the text of the file named
reader(mode, rs, st) ==
    IF mode = "typed" THEN [v |-> typedVal(rs), e |-> ENil, st |-> st]
    ELSE IF mode = "string" THEN [v |-> Str(rs), e |-> ENil, st |-> st]
    ELSE LET f == readFile(rs, st.stdin)
             st1 == [st EXCEPT !.stdin = f.stdin,
                               !.reads = Append(@, [path |-> rs,
                                                    src |-> f.src])]
         IN IF f.err = NoErr
            THEN [v |-> Str(f.data), e |-> ENil, st |-> st1]
            ELSE [v |-> Null, e |-> EErr(f.err.names), st |-> st1]

\* emptyVal: skip blanks; the value is empty at a comma or at the end
RECURSIVE emptyVal(_)
emptyVal(s) ==
    IF s = <<>> THEN [empty |-> TRUE, rest |-> <<>>]
    ELSE IF Head(s) = "," THEN [empty |-> TRUE, rest |-> Tail(s)]
    ELSE IF IsSpace(Head(s)) THEN emptyVal(Tail(s))
    ELSE [empty |-> FALSE, rest |-> s]

RECURSIVE LeadingDigits(_)
LeadingDigits(s) ==
    IF s # <<>> /\ IsDigit(Head(s)) THEN 1 + LeadingDigits(Tail(s)) ELSE 0

HasPrefix(s, p) == Len(s) >= Len(p) /\ SubSeq(s, 1, Len(p)) = p

Drop(s, n) == SubSeq(s, n + 1, Len(s))

\* json.Decoder.Decode of one value at the head of s: an integer, true,
\* false or null
jsonDecode(s) ==
    LET neg == s # <<>> /\ Head(s) = "-"
        body == IF neg THEN Tail(s) ELSE s
        nd == IF body # <<>> /\ Head(body) = "0" THEN 1 ELSE LeadingDigits(body)
        mag == DigitsVal(SubSeq(body, 1, nd), 0)
    IN IF nd > 0
       THEN [ok |-> TRUE, v |-> Num(IF neg THEN 0 - mag ELSE mag),
             rest |-> Drop(body, nd)]
       ELSE IF HasPrefix(s, <<"t", "r", "u", "e">>)
       THEN [ok |-> TRUE, v |-> Bool(TRUE), rest |-> Drop(s, 4)]
       ELSE IF HasPrefix(s, <<"f", "a", "l", "s", "e">>)
       THEN [ok |-> TRUE, v |-> Bool(FALSE), rest |-> Drop(s, 5)]
       ELSE IF HasPrefix(s, <<"n", "u", "l", "l">>)
       THEN [ok |-> TRUE, v |-> Null, rest |-> Drop(s, 4)]
       ELSE [ok |-> FALSE, v |-> Null, rest |-> s]

\* parser.key after '=' with isjsonval
jsonVal(st, data, k, rest) ==
    LET ev == emptyVal(rest)
        d == jsonDecode(ev.rest)
    IN IF ev.empty
       THEN [st |-> set(st, data, k, Null), rest |-> ev.rest, e |-> ENil]
       ELSE IF ~d.ok
       THEN [st |-> st, rest |-> ev.rest, e |-> EErr({})]
       ELSE [st |-> set(st, data, k, d.v), rest |-> emptyVal(d.rest).rest,
             e |-> ENil]

\* parser.key after '=' otherwise: valList, then val and the reader
plainVal(st, data, k, rest, mode) ==
    IF rest = <<>>
    THEN [st |-> set(st, data, k, Str(<<>>)), rest |-> <<>>, e |-> EEOF]
    ELSE LET r == runesUntil(rest, {","})
             rd == reader(mode, r.v, st)
         IN [st |-> set(rd.st, data, k, rd.v), rest |-> r.rest, e |-> rd.e]

\* parser.key: one assignment read from s into the map at data
RECURSIVE key(_, _, _, _)
key(st, data, s, mode) ==
    LET r == runesUntil(s, {"=", "[", ",", "."})
        k == r.v
        exists == k \in DOMAIN st.h[data]
        st1 == IF exists THEN st ELSE [st EXCEPT !.h = Append(@, EmptyDoc)]
        inner == IF exists THEN st.h[data][k].n ELSE Len(st.h) + 1
        sub == key(st1, inner, r.rest, mode)
        empty == sub.st.h[inner] = EmptyDoc
    IN IF r.eof
       THEN IF k = <<>>
            THEN [st |-> st, rest |-> <<>>, e |-> EEOF]
            \* key %q has no value
            ELSE [st |-> st, rest |-> <<>>, e |-> EErr({k})]
       ELSE IF r.last = "="
       THEN IF mode = "json"
            THEN jsonVal(st, data, k, r.rest)
            ELSE plainVal(st, data, k, r.rest, mode)
       ELSE IF r.last = ","
       \* key %q has no value (cannot end with ,)
       THEN [st |-> set(st, data, k, Str(<<>>)), rest |-> r.rest,
             e |-> EErr({k})]
       ELSE IF r.last = "."
       THEN IF exists /\ st.h[data][k].t # "ref"
            \* data[k].(map[string]interface{}) panics; key recovers
            THEN [st |-> st, rest |-> r.rest, e |-> EErr({})]
            ELSE IF sub.e.code = "nil" /\ empty
            \* key map %q has no value
            THEN [st |-> sub.st, rest |-> sub.rest, e |-> EErr({k})]
            ELSE [st |-> IF empty THEN sub.st
                         ELSE set(sub.st, data, k, Ref(inner)),
                  rest |-> sub.rest, e |-> sub.e]
       \* a list index: outside the expressions of the model
       ELSE [st |-> st, rest |-> r.rest, e |-> EErr({})]

\* parser.parse: assignments until the input ends or one fails
RECURSIVE parse(_, _, _, _)
parse(st, data, s, mode) ==
    LET r == key(st, data, s, mode)
    IN IF r.e.code = "nil" THEN parse(r.st, data, r.rest, mode)
       ELSE IF r.e.code = "EOF" THEN [st |-> r.st, err |-> ENil]
       ELSE [st |-> r.st, err |-> r.e]

\* literalParser.key: the key ends at the first '=', and everything after
\* it is the value
RECURSIVE keyLiteral(_, _, _)
keyLiteral(st, data, s) ==
    LET r == runesUntilLiteral(s, {"=", "[", "."})
        k == r.v
        exists == k \in DOMAIN st.h[data]
        st1 == IF exists THEN st ELSE [st EXCEPT !.h = Append(@, EmptyDoc)]
        inner == IF exists THEN st.h[data][k].n ELSE Len(st.h) + 1
        sub == keyLiteral(st1, inner, r.rest)
        empty == sub.st.h[inner] = EmptyDoc
    IN IF r.eof
       THEN IF k = <<>>
            THEN [st |-> st, rest |-> <<>>, e |-> EEOF]
            ELSE [st |-> st, rest |-> <<>>, e |-> EErr({k})]
       ELSE IF r.last = "="
       THEN [st |-> set(st, data, k, Str(runesUntilLiteral(r.rest, {}).v)),
             rest |-> <<>>, e |-> ENil]
       ELSE IF r.last = "."
       THEN IF exists /\ st.h[data][k].t # "ref"
            THEN [st |-> st, rest |-> r.rest, e |-> EErr({})]
            ELSE IF sub.e.code = "nil" /\ empty
            THEN [st |-> sub.st, rest |-> sub.rest, e |-> EErr({k})]
            ELSE [st |-> IF empty THEN sub.st
                         ELSE set(sub.st, data, k, Ref(inner)),
                  rest |-> sub.rest, e |-> sub.e]
       ELSE [st |-> st, rest |-> r.rest, e |-> EErr({})]

RECURSIVE parseLiteral(_, _, _)
parseLiteral(st, data, s) ==
    LET r == keyLiteral(st, data, s)
    IN IF r.e.code = "nil" THEN parseLiteral(r.st, data, r.rest)
       ELSE IF r.e.code = "EOF" THEN [st |-> r.st, err |-> ENil]
       ELSE [st |-> r.st, err |-> r.e]

ParseJSON(s, st, dest) == parse(st, dest, s, "json")
ParseInto(s, st, dest) == parse(st, dest, s, "typed")
ParseIntoString(s, st, dest) == parse(st, dest, s, "string")
ParseIntoFile(s, st, dest) == parse(st, dest, s, "file")
ParseLiteralInto(s, st, dest) == parseLiteral(st, dest, s)

(***************************************************************************)
(* Options.MergeValues (values.go:27-89).  One action per loop iteration;  *)
(* a loop whose slice is exhausted falls through to the next one.          *)
(***************************************************************************)
\* at most MaxFiles values-files, and at most MaxKinds of the five
\* expression slices non-empty, in an Options bundle
MaxFiles == 2
MaxKinds == 2

ExprA1 == <<"a", "=", "1">>
ExprA3 == <<"a", "=", "3">>
ExprAX == <<"a", "=", "x">>
ExprA1B == <<"a", "=", "1", ",", "b">>
ExprAB2 == <<"a", ".", "b", "=", "2">>
ExprBA3 == <<"b", ".", "a", "=", "3">>
ExprLit == <<"k", "=", "a", ",", "b", "=", "c">>
ExprAF == <<"a", "=", "f">>
ExprKStdin == <<"k", "=", " ", "-", " ">>
ExprKNo == <<"k", "=", "n", "o">>
ExprKDenied == <<"k", "=", "d", "e", "n">>

FilePaths ==
    {PathDash, PathDashSp, PathF, PathG, PathH, PathBad, PathDenied,
     PathMissing}
FileSeqs == UNION {[1..n -> FilePaths] : n \in 0..MaxFiles}
JSONChoices == {<<>>, <<ExprA3>>, <<ExprAX>>, <<ExprBA3, ExprA3>>}
ValuesChoices == {<<>>, <<ExprA1>>, <<ExprA1B>>, <<ExprAB2, ExprLit>>}
StringChoices == {<<>>, <<ExprA1>>, <<ExprAB2>>}
FileChoices == {<<>>, <<ExprAF>>, <<ExprKStdin>>, <<ExprKNo>>, <<ExprKDenied>>}
LiteralChoices == {<<>>, <<ExprLit>>, <<ExprA1B>>, <<ExprAB2>>}

\* faulty variant: the --set-string loop runs before the --set loop
LoopsStringFirst ==
    <<"ValueFiles", "JSONValues", "StringValues", "Values", "FileValues",
      "LiteralValues">>

\* the loops of MergeValues, in the order of the code
Loops ==
    <<"ValueFiles", "JSONValues", "Values", "StringValues", "FileValues",
      "LiteralValues">>

ExprLoops == {"JSONValues", "Values", "StringValues", "FileValues",
              "LiteralValues"}

Bundles ==
    {o \in [ValueFiles : FileSeqs, JSONValues : JSONChoices,
            Values : ValuesChoices, StringValues : StringChoices,
            FileValues : FileChoices, LiteralValues : LiteralChoices] :
        Cardinality({l \in ExprLoops : o[l] # <<>>}) <= MaxKinds}

LoopIndex(l) == CHOOSE n \in 1..Len(Loops) : Loops[n] = l

\* the first loop from the n-th on that has an element, or the return
RECURSIVE FirstFrom(_, _)
FirstFrom(o, n) ==
    IF n > Len(Loops) THEN "return"
    ELSE IF o[Loops[n]] # <<>> THEN Loops[n]
    ELSE FirstFrom(o, n + 1)

Init ==
    /\ opts \in Bundles
    /\ stdin = TextStdin
    /\ heap = <<EmptyDoc>>
    /\ base = 1
    /\ pc = FirstFrom(opts, 1)
    /\ idx = 0
    /\ err = NoErr
    /\ result = 0
    /\ reads = <<>>
    /\ trace = <<>>
    /\ argA = 0 /\ argB = 0 /\ out = 0 /\ heapPre = <<>> /\ calls = 0

\* the element the current loop is at
value == opts[pc][idx + 1]

\* the loop moves to its next element, or control falls to the next loop
Continue ==
    /\ err' = err
    /\ result' = result
    /\ IF idx + 1 < Len(opts[pc])
       THEN pc' = pc /\ idx' = idx + 1
       ELSE pc' = FirstFrom(opts, LoopIndex(pc) + 1) /\ idx' = 0

\* faulty variant: the document merged so far is returned beside the error
ReturnErrPartial(e) ==
    /\ err' = e
    /\ result' = base
    /\ pc' = "done"
    /\ idx' = idx

\* return nil, err
ReturnErr(e) ==
    /\ err' = e
    /\ result' = 0
    /\ pc' = "done"
    /\ idx' = idx

Item(ok) == [loop |-> pc, i |-> idx + 1, ok |-> ok]

\* faulty variant: the message does not carry the path
fileParseErrNoPath(filePath) == Error("ParseError", {})

\* errors.Wrapf(err, "failed to parse %s", filePath)
fileParseErr(filePath) == Error("ParseError", {filePath})

\* faulty variant: the accumulated document is merged onto the file's
mergeFileSwapped(h, b, currentMap) == mergeMaps(h, currentMap, b)

\* base = mergeMaps(base, currentMap)
mergeFile(h, b, currentMap) == mergeMaps(h, b, currentMap)

\* for _, filePath := range opts.ValueFiles (values.go:31-44)
ValuesFileStep ==
    /\ pc = "ValueFiles"
    /\ LET filePath == value
           currentMap == Len(heap) + 1
           h1 == Append(heap, EmptyDoc)
           f == readFile(filePath, stdin)
           u == Unmarshal(f.data)
           h2 == AllocKeys(h1, currentMap, u.doc, DOMAIN u.doc).h
           m == mergeFile(h2, base, currentMap)
           failed == f.err # NoErr \/ ~u.ok
       IN /\ reads' = Append(reads, [path |-> filePath, src |-> f.src,
                                     loop |-> pc, i |-> idx + 1])
          /\ stdin' = f.stdin
          /\ trace' = Append(trace, Item(~failed))
          /\ IF f.err # NoErr
             THEN heap' = h1 /\ base' = base /\ ReturnErr(f.err)
             ELSE IF ~u.ok
             THEN heap' = h1 /\ base' = base
                  /\ ReturnErr(fileParseErr(filePath))
             ELSE heap' = m.h /\ base' = m.r /\ Continue
    /\ UNCHANGED <<opts, mergeVars>>

\* the parser state an expression loop starts from
ParserState == [h |-> heap, stdin |-> stdin, reads |-> <<>>]

\* one iteration of an expression loop: r is what the strvals call left,
\* e the error returned when it failed
ExprStep(r, e) ==
    /\ heap' = r.st.h
    /\ stdin' = r.st.stdin
    /\ reads' = reads \o [n \in 1..Len(r.st.reads) |->
                            [path |-> r.st.reads[n].path,
                             src |-> r.st.reads[n].src,
                             loop |-> pc, i |-> idx + 1]]
    /\ trace' = Append(trace, Item(r.err = ENil))
    /\ base' = base
    /\ IF r.err # ENil THEN ReturnErr(e) ELSE Continue
    /\ UNCHANGED <<opts, mergeVars>>

\* for _, value := range opts.JSONValues (values.go:47-51)
SetJSONStep ==
    /\ pc = "JSONValues"
    /\ ExprStep(ParseJSON(value, ParserState, base),
                Error("SetJSON", {value}))

\* for _, value := range opts.Values (values.go:54-58)
SetStep ==
    /\ pc = "Values"
    /\ LET r == ParseInto(value, ParserState, base)
       IN ExprStep(r, Error("Set", r.err.names))

\* for _, value := range opts.StringValues (values.go:61-65)
SetStringStep ==
    /\ pc = "StringValues"
    /\ LET r == ParseIntoString(value, ParserState, base)
       IN ExprStep(r, Error("SetString", r.err.names))

\* for _, value := range opts.FileValues (values.go:68-79)
SetFileStep ==
    /\ pc = "FileValues"
    /\ LET r == ParseIntoFile(value, ParserState, base)
       IN ExprStep(r, Error("SetFile", r.err.names))

\* faulty variant: the literal expression goes through the --set parser
parseLiteralAsSet(v, st, dest) == ParseInto(v, st, dest)

\* strvals.ParseLiteralInto(value, base)
parseLiteralValue(v, st, dest) == ParseLiteralInto(v, st, dest)

\* for _, value := range opts.LiteralValues (values.go:82-86)
SetLiteralStep ==
    /\ pc = "LiteralValues"
    /\ LET r == parseLiteralValue(value, ParserState, base)
       IN ExprStep(r, Error("SetLiteral", r.err.names))

\* return base, nil
Return ==
    /\ pc = "return"
    /\ pc' = "done"
    /\ result' = base
    /\ UNCHANGED <<heap, opts, stdin, base, idx, err, reads, trace, mergeVars>>

Next ==
    \/ ValuesFileStep
    \/ SetJSONStep
    \/ SetStep
    \/ SetStringStep
    \/ SetFileStep
    \/ SetLiteralStep
    \/ Return

Spec == Init /\ [][Next]_vars

(***************************************************************************)
(* Properties of mergeMaps, checked under MergeSpec.                       *)
(***************************************************************************)
docA == Deref(heapPre, argA)
docB == Deref(heapPre, argB)
docOut == Deref(heap, out)

\* C is the merge of A (existing) and B (incoming) by the recursive merge rule
RECURSIVE IsMerge(_, _, _)
IsMerge(C, A, B) ==
    /\ DOMAIN C = DOMAIN A \cup DOMAIN B
    /\ \A k \in DOMAIN C :
          IF k \notin DOMAIN B THEN C[k] = A[k]
          ELSE IF k \notin DOMAIN A THEN C[k] = B[k]
          ELSE IF A[k].t = "map" /\ B[k].t = "map"
               THEN C[k].t = "map" /\ IsMerge(C[k].m, A[k].m, B[k].m)
               ELSE C[k] = B[k]

\* C1: mergeMaps(A, B) keeps the keys only in A, takes the keys only in B,
\* merges recursively where both values are nested documents, and otherwise
\* lets B's value replace A's outright (lists are replaced, never merged).
C1_MergeRule == out # 0 => IsMerge(docOut, docA, docB)

\* a call where a key is only in A, a key is only in B one level down, both
\* hold a nested document under a, and below it a list replaces a document
C1_Witness ==
    /\ calls = 1
    /\ Nm("b") \in DOMAIN docA /\ Nm("b") \notin DOMAIN docB
    /\ Nm("a") \in DOMAIN docA /\ Nm("a") \in DOMAIN docB
    /\ docA[Nm("a")].t = "map" /\ docB[Nm("a")].t = "map"
    /\ Nm("b") \in DOMAIN docB[Nm("a")].m
    /\ Nm("b") \notin DOMAIN docA[Nm("a")].m
    /\ Nm("a") \in DOMAIN docA[Nm("a")].m
    /\ Nm("a") \in DOMAIN docB[Nm("a")].m
    /\ docA[Nm("a")].m[Nm("a")].t = "map"
    /\ docB[Nm("a")].m[Nm("a")].t = "list"

\* C7: the empty document is a two-sided identity of mergeMaps.
C7_Identity ==
    out # 0 =>
        /\ docB = EmptyDoc => docOut = docA
        /\ docA = EmptyDoc => docOut = docB

\* a non-empty document with a nested document merged with the empty one
C7_Witness ==
    /\ calls = 1
    /\ docB = EmptyDoc
    /\ Nm("a") \in DOMAIN docA /\ Nm("b") \in DOMAIN docA
    /\ docA[Nm("a")].t = "map"
    /\ docA[Nm("a")].m # EmptyDoc
    /\ docOut = docA

\* C8: merge(A, A) = A, and merging the same document a second time onto
\* the result of the first merge gives the result of the first merge.
C8_Idempotent ==
    /\ out # 0 /\ docA = docB => docOut = docA
    /\ calls >= 2 => docOut = docA

\* the second merge of a document with lists and a nested document onto a
\* result that already equals it
C8_Witness ==
    /\ calls = 2
    /\ docA = docB
    /\ Nm("a") \in DOMAIN docB
    /\ docB[Nm("a")].t = "map"
    /\ Nm("a") \in DOMAIN docB[Nm("a")].m
    /\ docB[Nm("a")].m[Nm("a")].t = "list"

\* C10: mergeMaps writes to no map that existed before the call (so a, b
\* and every nested document reachable from them are as they were), and the
\* map it returns is a new one, distinct from a and from b.
C10_Frame ==
    out # 0 =>
        /\ Len(heap) >= Len(heapPre)
        /\ \A r \in 1..Len(heapPre) : heap[r] = heapPre[r]
        /\ out > Len(heapPre)
        /\ out \notin {argA, argB}

\* a call that recursed twice: both arguments nest two documents under a
C10_Witness ==
    /\ calls >= 1
    /\ Nm("a") \in DOMAIN docA /\ Nm("a") \in DOMAIN docB
    /\ docA[Nm("a")].t = "map" /\ docB[Nm("a")].t = "map"
    /\ Nm("a") \in DOMAIN docA[Nm("a")].m
    /\ Nm("a") \in DOMAIN docB[Nm("a")].m
    /\ docA[Nm("a")].m[Nm("a")].t = "map"
    /\ docB[Nm("a")].m[Nm("a")].t = "map"
    /\ docB[Nm("a")].m[Nm("a")].m # EmptyDoc

(***************************************************************************)
(* Properties of MergeValues, checked under Spec.                          *)
(***************************************************************************)
final == Deref(heap, result)

\* every path of a document with the value under it
RECURSIVE Nodes(_)
Nodes(doc) ==
    UNION {{[p |-> <<k>>, v |-> doc[k]]}
           \cup (IF doc[k].t = "map"
                 THEN {[p |-> <<k>> \o n.p, v |-> n.v] : n \in Nodes(doc[k].m)}
                 ELSE {}) : k \in DOMAIN doc}

\* the paths that end in a scalar or a list
Leaves(doc) == {n \in Nodes(doc) : n.v.t # "map"}

IsPrefix(p, q) == Len(p) <= Len(q) /\ SubSeq(q, 1, Len(p)) = p

\* a later document replaces what an earlier one holds at path p: it has a
\* value at p, or something that is not a document on the way to p
Clobbers(doc, p) ==
    \E n \in Nodes(doc) : IsPrefix(n.p, p) /\ (n.p = p \/ n.v.t # "map")

\* "-" with nothing but blanks around it
IsSentinel(p) ==
    \E i \in 1..Len(p) :
        p[i] = "-" /\ \A j \in 1..Len(p) : j # i => IsSpace(p[j])

Items(o, l) == [n \in 1..Len(o[l]) |-> <<l, n>>]

\* values-files, then JSON, plain, string-forced, file-content, literal
Prio == <<"JSONValues", "Values", "StringValues", "FileValues",
          "LiteralValues">>

ExpectedOrder(o) ==
    Items(o, "ValueFiles") \o Items(o, "JSONValues") \o Items(o, "Values")
    \o Items(o, "StringValues") \o Items(o, "FileValues")
    \o Items(o, "LiteralValues")

TraceItems == [n \in 1..Len(trace) |-> <<trace[n].loop, trace[n].i>>]

last == trace[Len(trace)]

Succeeded == pc = "done" /\ err = NoErr
Failed == pc = "done" /\ err # NoErr

\* what is left on standard input once the values-files are read
StdinAfterFiles ==
    IF \E i \in 1..Len(opts.ValueFiles) : IsSentinel(opts.ValueFiles[i])
    THEN <<>> ELSE TextStdin

ParseKind(l, e, st) ==
    CASE l = "JSONValues" -> ParseJSON(e, st, 1)
      [] l = "Values" -> ParseInto(e, st, 1)
      [] l = "StringValues" -> ParseIntoString(e, st, 1)
      [] l = "FileValues" -> ParseIntoFile(e, st, 1)
      [] l = "LiteralValues" -> ParseLiteralInto(e, st, 1)

RECURSIVE ApplyAll(_, _, _)
ApplyAll(l, es, st) ==
    IF es = <<>> THEN st
    ELSE ApplyAll(l, Tail(es), ParseKind(l, Head(es), st).st)

\* the document the expressions of one kind build on their own
AloneDoc(l) ==
    Deref(ApplyAll(l, opts[l],
                   [h |-> <<EmptyDoc>>, stdin |-> StdinAfterFiles,
                    reads |-> <<>>]).h, 1)

\* C2: the items are processed values-files first, then JSON, plain,
\* string-forced, file-content and literal expressions; so whatever a kind
\* assigns is in the final document unless a kind later in that order
\* assigns the same path (or replaces a document above it).
C2_PriorityOrder ==
    Succeeded =>
        LET D == [n \in 1..Len(Prio) |-> AloneDoc(Prio[n])]
            F == Leaves(final)
        IN /\ TraceItems = ExpectedOrder(opts)
           /\ \A n \in 1..Len(Prio) : \A l \in Leaves(D[n]) :
                 (\A m \in (n + 1)..Len(Prio) : ~Clobbers(D[m], l.p))
                    => l \in F

\* plain a=1 and string-forced a=1: a is the string "1"
C2_Witness ==
    /\ Succeeded
    /\ opts.Values = <<ExprA1>>
    /\ opts.StringValues = <<ExprA1>>
    /\ opts.ValueFiles = <<PathF>>
    /\ final[Nm("a")] = Str(<<"1">>)

FilesDone ==
    /\ err = NoErr
    /\ opts.ValueFiles # <<>>
    /\ Len(trace) = Len(opts.ValueFiles)

\* the text the i-th values-file yields: standard input is read once
FileText(i) ==
    LET path == opts.ValueFiles[i]
    IN IF IsSentinel(path)
       THEN IF \E j \in 1..(i - 1) : IsSentinel(opts.ValueFiles[j])
            THEN <<>> ELSE TextStdin
       ELSE Disk[path]

FileDoc(i) == Unmarshal(FileText(i)).doc

\* C3: after the values-file loop the accumulated document holds every leaf
\* of every file that no later file replaces, and nothing else; f then g
\* gives {a: 2} and g then f gives {a: 1}.
C3_FileOrder ==
    FilesDone =>
        LET n == Len(opts.ValueFiles)
            D == Deref(heap, base)
        IN /\ \A i \in 1..n : \A l \in Leaves(FileDoc(i)) :
                 (\A j \in (i + 1)..n : ~Clobbers(FileDoc(j), l.p))
                    => l \in Leaves(D)
           /\ \A l \in Leaves(D) : \E i \in 1..n : l \in Leaves(FileDoc(i))
           /\ opts.ValueFiles = <<PathF, PathG>> => D = (Nm("a") :> Num(2))
           /\ opts.ValueFiles = <<PathG, PathF>> => D = (Nm("a") :> Num(1))

\* h then standard input: b.a is overridden one level down, a and b.b of
\* the earlier file survive
C3_Witness ==
    /\ FilesDone
    /\ opts.ValueFiles = <<PathH, PathDash>>
    /\ Deref(heap, base) =
          (Nm("a") :> Num(1))
          @@ (Nm("b") :> Map((Nm("a") :> Num(2)) @@ (Nm("b") :> Num(1))))

ErrKinds(l) ==
    CASE l = "ValueFiles" -> {"ReadError", "ParseError"}
      [] l = "JSONValues" -> {"SetJSON"}
      [] l = "Values" -> {"Set"}
      [] l = "StringValues" -> {"SetString"}
      [] l = "FileValues" -> {"SetFile"}
      [] l = "LiteralValues" -> {"SetLiteral"}

\* C4: items are processed in order and only up to the first that fails;
\* that item's error is the one returned, nothing is read for a later item,
\* and the document returned beside an error is nil.
C4_FailFast ==
    /\ IsPrefix(TraceItems, ExpectedOrder(opts))
    /\ \A n \in 1..(Len(trace) - 1) : trace[n].ok
    /\ err # NoErr <=> (trace # <<>> /\ ~last.ok)
    /\ err # NoErr => pc = "done" /\ result = 0 /\ err.kind \in ErrKinds(last.loop)
    /\ \A n \in 1..Len(reads) :
          \E k \in 1..Len(trace) :
              trace[k].loop = reads[n].loop /\ trace[k].i = reads[n].i

\* the first file is malformed and the second missing: one read, one item
C4_Witness ==
    /\ Failed
    /\ opts.ValueFiles = <<PathBad, PathMissing>>
    /\ opts.Values # <<>>
    /\ Len(reads) = 1
    /\ Len(trace) = 1
    /\ err.kind = "ParseError"
    /\ result = 0

\* the file path or raw expression of the item that failed
Offender == opts[last.loop][last.i]

Unreadable(path) ==
    ~IsSentinel(path) /\ (path \notin DOMAIN Disk \/ Disk[path] = <<"denied">>)

\* the files the failing --set-file expression could not read
FailedReads ==
    {reads[n].path : n \in {k \in 1..Len(reads) :
        /\ reads[k].loop = last.loop
        /\ reads[k].i = last.i
        /\ last.loop = "FileValues"
        /\ Unreadable(reads[k].path)}}

First(s, c) ==
    IF \E i \in 1..Len(s) : s[i] = c
    THEN CHOOSE i \in 1..Len(s) : s[i] = c /\ \A j \in 1..(i - 1) : s[j] # c
    ELSE 0

RECURSIVE SplitDots(_)
SplitDots(s) ==
    IF First(s, ".") = 0 THEN <<s>>
    ELSE <<SubSeq(s, 1, First(s, ".") - 1)>>
         \o SplitDots(SubSeq(s, First(s, ".") + 1, Len(s)))

OnlyLiteral ==
    /\ opts.ValueFiles = <<>> /\ opts.JSONValues = <<>> /\ opts.Values = <<>>
    /\ opts.StringValues = <<>> /\ opts.FileValues = <<>>
    /\ Len(opts.LiteralValues) = 1

\* C9: the last literal assignment path=value leaves, at path, the string
\* made of every character after the first '=', whatever the other sources
\* assigned; a single literal assignment alone yields exactly one key.
C9_Literal ==
    Succeeded /\ opts.LiteralValues # <<>> =>
        LET e == opts.LiteralValues[Len(opts.LiteralValues)]
            eq == First(e, "=")
            path == SplitDots(SubSeq(e, 1, eq - 1))
            rhs == SubSeq(e, eq + 1, Len(e))
        IN /\ eq > 1 /\ (\A n \in 1..Len(path) : path[n] # <<>>)
                => [p |-> path, v |-> Str(rhs)] \in Leaves(final)
           /\ OnlyLiteral => Cardinality(Nodes(final)) = Len(path)

\* --set a.b=2 and k=a,b=c (two keys), then --set-literal k=a,b=c
C9_Witness ==
    /\ Succeeded
    /\ opts.Values = <<ExprAB2, ExprLit>>
    /\ opts.LiteralValues = <<ExprLit>>
    /\ final[Nm("k")] = Str(<<"a", ",", "b", "=", "c">>)
    /\ final[Nm("b")] = Str(<<"c">>)

====
